---- MODULE Spec2Model ----
(***************************************************************************)
(* Tripe: a persistent full-text phrase index (src/tripe.py).              *)
(*                                                                         *)
(* The file is modelled byte for byte: `file` is the sequence of bytes of  *)
(* the index file (the MAP_SHARED memory map and the file are the same     *)
(* bytes), byte offset o of the file being file[o+1].  Numbers are 8-byte  *)
(* little-endian words, text is one byte per character (the model covers   *)
(* ASCII text, for which the UTF-8 encoding is the bytes themselves).      *)
(* Strings are sequences of character codes: "a b" is <<97, 32, 98>>.      *)
(***************************************************************************)
EXTENDS Integers, Sequences, FiniteSets, TLC

VARIABLES
  exists,        \* does the index file exist on disk
  file,          \* the bytes of the index file (<<>> while it does not exist)
  store,         \* the TripeStore/Tripe objects of the running process
  root,          \* Tripe.root.handle of the running process (0: no Tripe object)
  added,         \* history: the <<text, doc>> arguments of the completed add calls
  query,         \* the arguments of the last search call (<<>> after another call)
  results,       \* what the last search call returned
  err,           \* the exception the last call raised ("none" if it returned)
  call,          \* the last call made on a TripeStore directly, and the file before it
  held           \* the handles of numbers such calls returned and have not passed to free

vars == <<exists, file, store, root, added, query, results, err, call, held>>

----------------------------------------------------------------------------
(* Bytes and characters *)

\* byte k (0 = least significant) of the number n: struct.pack('Q', n)[k]
RECURSIVE Byte(_, _)
Byte(n, k) == IF k = 0 THEN n % 256 ELSE Byte(n \div 256, k - 1)

\* struct.pack('Q', n): 8 bytes, little-endian
pack_Q(n) == [k \in 1..8 |-> Byte(n, k - 1)]

\* struct.unpack('Q', bytes)[0]: bytes[k] + 256 * (the number of the bytes above k)
RECURSIVE unpack_from(_, _)
unpack_from(bytes, k) ==
  IF k > Len(bytes) THEN 0 ELSE bytes[k] + 256 * unpack_from(bytes, k + 1)

unpack_Q(bytes) == unpack_from(bytes, 1)

\* n zero bytes: what mmap.resize (ftruncate) appends to the file
Zeros(n) == [k \in 1..n |-> 0]

\* \s of the re module on a byte string: space, \t, \n, \v, \f, \r
IsSpace(c) == c \in {32, 9, 10, 11, 12, 13}

\* \w of the re module on a byte string: [a-zA-Z0-9_]
IsWord(c) == c \in (48..57) \cup (65..90) \cup (97..122) \cup {95}

\* str.lower() on one ASCII character
lower(c) == IF c \in 65..90 THEN c + 32 ELSE c

----------------------------------------------------------------------------
(* stem and tokenize, tripe.py:8-20 *)

\* STEMRE.sub('', term.lower()): lowercase, then drop every \W character
stem(term) == SelectSeq([k \in 1..Len(term) |-> lower(term[k])], IsWord)

\* the first index >= i of text at which IsSpace is not sp (Len(text)+1 if none):
\* the end of a greedy \s* (sp = TRUE) or \S* (sp = FALSE) starting at i
RECURSIVE Span(_, _, _)
Span(text, i, sp) ==
  IF i <= Len(text) /\ IsSpace(text[i]) = sp THEN Span(text, i + 1, sp) ELSE i

\* TOKRE.findall(text) scanning from index i: the <<pre, term, post>> groups of
\* the successive matches of (\s*)(\S+)(\s*)
RECURSIVE TOKRE_findall(_, _)
TOKRE_findall(text, i) ==
  LET \* the match is text[i..a-1], text[a..b-1], text[b..c-1]
      groups(a, b, c) ==
        IF b = a THEN <<>>
        ELSE << <<SubSeq(text, i, a - 1), SubSeq(text, a, b - 1), SubSeq(text, b, c - 1)>> >>
             \o TOKRE_findall(text, c)
      post(a, b) == groups(a, b, Span(text, b, TRUE))
      term(a) == post(a, Span(text, a, FALSE))
  IN term(Span(text, i, TRUE))

\* the loop of tokenize over the matches from the k-th on, `off` as in the code
RECURSIVE tokenize_loop(_, _, _)
tokenize_loop(found, k, off) ==
  IF k > Len(found) THEN <<>>
  ELSE LET pre  == found[k][1]
           term == found[k][2]
           post == found[k][3]
           off1 == off + Len(pre)
       IN <<[off |-> off1, stemmed |-> stem(term), raw |-> term]>>
          \o tokenize_loop(found, k + 1, off1 + Len(term) + Len(post))

tokenize(text) == tokenize_loop(TOKRE_findall(text, 1), 1, 0)

----------------------------------------------------------------------------
(* TripeStore, tripe.py:22-141.  m is the memory map: the bytes of the file *)

INTSIZE == 8
HEADERCOUNT == 16
HEADERSIZE == INTSIZE * HEADERCOUNT
HEADER_MAGIC == 0
HEADER_ROOT == 1 * INTSIZE
HEADER_FIRST_FREE == 2 * INTSIZE

\* pack('Q', Tripe.MAGIC): the bytes of 'Tripe001' (the number itself exceeds
\* the integers of the model checker; the program only ever writes it)
MAGIC == <<84, 114, 105, 112, 101, 48, 48, 49>>

\* the file TripeStore.__init__ creates: MAGIC and HEADERCOUNT-1 zero words
NewFile == MAGIC \o Zeros(INTSIZE * (HEADERCOUNT - 1))

load_number(m, offset) == unpack_Q(SubSeq(m, offset + 1, offset + INTSIZE))

\* m with the bytes placed at offset (the slice assignment mmap[offset:...] = bytes)
Splice(m, offset, bytes) ==
  SubSeq(m, 1, offset) \o bytes \o SubSeq(m, offset + Len(bytes) + 1, Len(m))

store_number(m, offset, number) == Splice(m, offset, pack_Q(number))

handle_size(m, handle) == load_number(m, handle - INTSIZE)

get_handle(m, handle) == SubSeq(m, handle + 1, handle + handle_size(m, handle))

\* defined when Len(bytes) is the size of the handle (the callers make it so)
set_handle(m, handle, bytes) == Splice(m, handle, bytes)

\* mutant: the block found is not removed from the linked list
RECURSIVE allocate_walk_linked(_, _, _, _)
allocate_walk_linked(m, size, prev_free, free) ==
  IF free = 0 THEN [m |-> m, offset |-> 0]
  ELSE IF handle_size(m, free) > size
       THEN [m |-> m, offset |-> free - INTSIZE]
       ELSE allocate_walk_linked(m, size, free, load_number(m, free))

\* mutant: a free block as large as the request is taken too
RECURSIVE allocate_walk_fitting(_, _, _, _)
allocate_walk_fitting(m, size, prev_free, free) ==
  IF free = 0 THEN [m |-> m, offset |-> 0]
  ELSE IF handle_size(m, free) >= size
       THEN [m |-> store_number(m, prev_free, load_number(m, free)),
             offset |-> free - INTSIZE]
       ELSE allocate_walk_fitting(m, size, free, load_number(m, free))

\* the while loop of __allocate: [m, offset] with the block unlinked, or
\* offset = 0 when the loop runs off the free list (the else clause)
RECURSIVE allocate_walk(_, _, _, _)
allocate_walk(m, size, prev_free, free) ==
  IF free = 0 THEN [m |-> m, offset |-> 0]
  ELSE IF handle_size(m, free) > size
       THEN [m |-> store_number(m, prev_free, load_number(m, free)),
             offset |-> free - INTSIZE]
       ELSE allocate_walk(m, size, free, load_number(m, free))

\* mutant: the length is stored only in a block at the new tail; a block taken
\* from the free list keeps its size prefix
allocate_keep_prefix(m, size) ==
  LET finish(m1, offset) ==
        [m |-> store_number(m1, offset, size), handle |-> offset + INTSIZE]
      place(w) ==
        IF w.offset = 0 THEN finish(m \o Zeros(INTSIZE + size), Len(m))
        ELSE [m |-> w.m, handle |-> w.offset + INTSIZE]
  IN place(allocate_walk(m, size, HEADER_FIRST_FREE, load_number(m, HEADER_FIRST_FREE)))

\* __allocate(size): [m |-> the map afterwards, handle |-> the handle returned]
allocate(m, size) ==
  LET \* lines 78-81: store the length at offset, return the payload offset
      finish(m1, offset) ==
        [m |-> store_number(m1, offset, size), handle |-> offset + INTSIZE]
      \* w: what the while loop left; its else clause grows the file
      place(w) ==
        IF w.offset = 0 THEN finish(m \o Zeros(INTSIZE + size), Len(m))
        ELSE finish(w.m, w.offset)
  IN place(allocate_walk(m, size, HEADER_FIRST_FREE, load_number(m, HEADER_FIRST_FREE)))

get_root(m) == load_number(m, HEADER_ROOT)

set_root(m, handle) == store_number(m, HEADER_ROOT, handle)

\* pack('Q' * len(numbers), *numbers)
RECURSIVE pack_all(_)
pack_all(numbers) ==
  IF numbers = <<>> THEN <<>> ELSE pack_Q(Head(numbers)) \o pack_all(Tail(numbers))

store_numbers(m, numbers) ==
  LET write(a) == [m |-> set_handle(a.m, a.handle, pack_all(numbers)), handle |-> a.handle]
  IN write(allocate(m, INTSIZE * Len(numbers)))

store_text(m, text) ==
  LET write(a) == [m |-> set_handle(a.m, a.handle, text), handle |-> a.handle]
  IN write(allocate(m, Len(text)))

\* update_numbers: the assert fails (raised) when the sizes differ
update_numbers(m, handle, numbers) ==
  IF INTSIZE * Len(numbers) = handle_size(m, handle)
  THEN [m |-> set_handle(m, handle, pack_all(numbers)), raised |-> FALSE]
  ELSE [m |-> m, raised |-> TRUE]

load_numbers(m, handle) ==
  [k \in 1..(handle_size(m, handle) \div INTSIZE) |->
     load_number(m, handle + INTSIZE * (k - 1))]

load_text(m, handle) == get_handle(m, handle)

\* 'F' * n
Fs(n) == [k \in 1..n |-> 70]

\* free(handle): store_text allocates a block for the 'F's, then the handle is
\* linked in at the head of the free list
free(m, handle) ==
  LET link(m1) ==
        store_number(store_number(m1, handle, load_number(m1, HEADER_FIRST_FREE)),
                     HEADER_FIRST_FREE, handle)
  IN link(store_text(m, Fs(handle_size(m, handle))).m)

----------------------------------------------------------------------------
(* TermInstance, tripe.py:275-331.  A handle 0 stands for None. *)

\* TermInstance(tripe, None, doc, offset, raw, next): the raw text block, then the
\* record of four numbers
TermInstance_new(m, doc, offset, raw, next_handle) ==
  LET record(t) == store_numbers(t.m, <<doc, offset, t.handle, next_handle>>)
  IN record(store_text(m, raw))

\* TermInstance(tripe, handle): the fields loaded from the file
TermInstance_load(m, handle) ==
  LET fields(n) ==
        [handle |-> handle, doc |-> n[1], offset |-> n[2], raw_handle |-> n[3],
         next_handle |-> n[4], raw |-> load_text(m, n[3])]
  IN fields(load_numbers(m, handle))

\* mutant: the raw texts are compared without regard to case
matches_exact_nocase(instance, raw) ==
  [k \in 1..Len(instance.raw) |-> lower(instance.raw[k])]
    = [k \in 1..Len(raw) |-> lower(raw[k])]

\* mutant: every instance passes
matches_exact_any(instance, raw) == TRUE

matches_exact(instance, raw) == instance.raw = raw

\* the for loop of matches_phrase from the k-th phrase token on; `handle` is the
\* handle of `instance` (0: instance is None)
RECURSIVE matches_phrase_loop(_, _, _, _, _)
matches_phrase_loop(m, handle, phrase, k, exact) ==
  LET check(instance) ==
        IF exact /\ phrase[k].raw # instance.raw THEN FALSE
        ELSE IF ~exact /\ phrase[k].stemmed # stem(instance.raw) THEN FALSE
        ELSE matches_phrase_loop(m, instance.next_handle, phrase, k + 1, exact)
  IN IF k > Len(phrase) THEN TRUE
     ELSE IF handle = 0 THEN FALSE
     ELSE check(TermInstance_load(m, handle))

\* mutant: the rest of the phrase is never compared
matches_phrase_unchecked(m, instance, phrase, exact) == TRUE

matches_phrase(m, instance, phrase, exact) ==
  matches_phrase_loop(m, instance.next_handle, phrase, 1, exact)

----------------------------------------------------------------------------
(* TrieNode, tripe.py:188-272 *)

\* TrieNode(tripe, None)
TrieNode_new(m) == store_numbers(m, <<0, 0>>)

\* __matches: the list of match handles
TrieNode_matches(m, handle) ==
  LET list(matches_handle) ==
        IF matches_handle = 0 THEN <<>> ELSE load_numbers(m, matches_handle)
  IN list(load_numbers(m, handle)[1])

\* zip(children[::2], children[1::2])
zip_pairs(children) ==
  [k \in 1..(Len(children) \div 2) |-> <<children[2 * k - 1], children[2 * k]>>]

\* __children: the list of <<key, handle>>
TrieNode_children(m, handle) ==
  LET list(children_handle) ==
        IF children_handle = 0 THEN <<>>
        ELSE zip_pairs(load_numbers(m, children_handle))
  IN list(load_numbers(m, handle)[2])

\* __find_child: the handle of the first child whose key is name, 0 for None
RECURSIVE find_child_loop(_, _, _)
find_child_loop(children, k, name) ==
  IF k > Len(children) THEN 0
  ELSE IF children[k][1] = name THEN children[k][2]
  ELSE find_child_loop(children, k + 1, name)

find_child(m, handle, name) == find_child_loop(TrieNode_children(m, handle), 1, name)

\* [TermInstance(tripe, h) for h in handles]
load_instances(m, handles) ==
  [k \in 1..Len(handles) |-> TermInstance_load(m, handles[k])]

\* TrieNode.search: the term instances filed under term below this node
RECURSIVE TrieNode_search(_, _, _)
TrieNode_search(m, handle, term) ==
  LET descend(child) ==
        IF child # 0 THEN TrieNode_search(m, child, Tail(term)) ELSE <<>>
  IN IF term = <<>> THEN load_instances(m, TrieNode_matches(m, handle))
     ELSE descend(find_child(m, handle, Head(term)))

\* the order of list.sort() on <<key, handle>> tuples
PairLess(p, q) == p[1] < q[1] \/ (p[1] = q[1] /\ p[2] < q[2])

\* mutant: the list is left as it is, the new child last
sort_none(list) == list

\* list.sort(): the least element, then the others sorted
RECURSIVE sort(_)
sort(list) ==
  LET least_first(k) ==
        <<list[k]>> \o sort(SubSeq(list, 1, k - 1) \o SubSeq(list, k + 1, Len(list)))
  IN IF list = <<>> THEN <<>>
     ELSE least_first(CHOOSE i \in 1..Len(list) :
                        \A j \in 1..Len(list) : ~PairLess(list[j], list[i]))

\* children_flat: key, handle, key, handle, ...
RECURSIVE flatten(_)
flatten(children) ==
  IF children = <<>> THEN <<>> ELSE Head(children) \o flatten(Tail(children))

\* mutant: the new list of matches holds the new match only
add_match_alone(m, handle, value) ==
  LET release(u, old_matches) ==
        [m |-> IF old_matches # 0 THEN free(u.m, old_matches) ELSE u.m,
         raised |-> FALSE]
      update(new, old) ==
        release(update_numbers(new.m, handle, <<new.handle, old[2]>>), old[1])
      reload(new) == update(new, load_numbers(new.m, handle))
  IN reload(store_numbers(m, <<value>>))

\* the term == '' branch of TrieNode.add: [m, raised]
add_match(m, handle, value) ==
  LET \* lines 245-246: free the old matches array
      release(u, old_matches) ==
        IF u.raised THEN u
        ELSE [m |-> IF old_matches # 0 THEN free(u.m, old_matches) ELSE u.m,
              raised |-> FALSE]
      \* lines 241-243: old is the record of the node, <<old_matches, children_handle>>
      update(new, old) ==
        release(update_numbers(new.m, handle, <<new.handle, old[2]>>), old[1])
      reload(new) == update(new, load_numbers(new.m, handle))
  IN \* lines 235-239: store the list of matches with the new one appended
     reload(store_numbers(m, Append(TrieNode_matches(m, handle), value)))

\* the child == None branch of TrieNode.add: [m, raised, child]
add_child(m, handle, character) ==
  LET \* lines 270-271: free the old children array
      release(u, old_children, child) ==
        IF u.raised THEN [m |-> u.m, raised |-> TRUE, child |-> child.handle]
        ELSE [m |-> IF old_children # 0 THEN free(u.m, old_children) ELSE u.m,
              raised |-> FALSE, child |-> child.handle]
      \* lines 266-268: old is the record of the node, <<matches_handle, old_children>>
      update(new, old, child) ==
        release(update_numbers(new.m, handle, <<old[1], new.handle>>), old[2], child)
      reload(new, child) == update(new, load_numbers(new.m, handle), child)
      \* lines 255-264: the children with the new one, sorted, flattened, stored
      rewrite(child) ==
        reload(store_numbers(child.m,
                 flatten(sort(Append(TrieNode_children(child.m, handle),
                                     <<character, child.handle>>)))),
               child)
  IN \* line 253
     rewrite(TrieNode_new(m))

\* TrieNode.add(term, value): [m, raised]; value is the handle of the instance
RECURSIVE TrieNode_add(_, _, _, _)
TrieNode_add(m, handle, term, value) ==
  LET into_new(c) ==
        IF c.raised THEN [m |-> c.m, raised |-> TRUE]
        ELSE TrieNode_add(c.m, c.child, Tail(term), value)
      into(child) ==
        IF child = 0 THEN into_new(add_child(m, handle, Head(term)))
        ELSE TrieNode_add(m, child, Tail(term), value)
  IN IF term = <<>> THEN add_match(m, handle, value)
     ELSE into(find_child(m, handle, Head(term)))

----------------------------------------------------------------------------
(* Tripe, tripe.py:144-185 *)

\* mutant: the handle of the new root is not stored in the header
Tripe_init_unrooted(m, writable) ==
  LET made(n) == [m |-> n.m, root |-> n.handle, raised |-> FALSE]
  IN IF get_root(m) = 0
     THEN IF writable THEN made(TrieNode_new(m))
          ELSE [m |-> m, root |-> 0, raised |-> TRUE]
     ELSE [m |-> m, root |-> get_root(m), raised |-> FALSE]

\* mutant: a root is made whenever the map can be written
Tripe_init_rerooted(m, writable) ==
  LET made(n) == [m |-> set_root(n.m, n.handle), root |-> n.handle, raised |-> FALSE]
  IN IF writable THEN made(TrieNode_new(m))
     ELSE IF get_root(m) = 0 THEN [m |-> m, root |-> 0, raised |-> TRUE]
     ELSE [m |-> m, root |-> get_root(m), raised |-> FALSE]

\* Tripe.__init__ on a store whose map is m: [m, root, raised].  Making the root
\* writes to the map, which raises when the map is read-only.
Tripe_init(m, writable) ==
  LET made(n) == [m |-> set_root(n.m, n.handle), root |-> n.handle, raised |-> FALSE]
  IN IF get_root(m) = 0
     THEN IF writable THEN made(TrieNode_new(m))
          ELSE [m |-> m, root |-> 0, raised |-> TRUE]
     ELSE [m |-> m, root |-> get_root(m), raised |-> FALSE]

\* [instance for instance in instances if instance.matches_exact(raw)]
RECURSIVE filter_exact(_, _)
filter_exact(instances, raw) ==
  IF instances = <<>> THEN <<>>
  ELSE (IF matches_exact(Head(instances), raw) THEN <<Head(instances)>> ELSE <<>>)
       \o filter_exact(Tail(instances), raw)

\* [instance for instance in instances if instance.matches_phrase(phrase, exact)]
RECURSIVE filter_phrase(_, _, _, _)
filter_phrase(m, instances, phrase, exact) ==
  IF instances = <<>> THEN <<>>
  ELSE (IF matches_phrase(m, Head(instances), phrase, exact)
        THEN <<Head(instances)>> ELSE <<>>)
       \o filter_phrase(m, Tail(instances), phrase, exact)

\* mutant: the raw first token is checked only when the phrase has no other token
Tripe_search_lazy_exact(m, root_handle, phrase, exact) ==
  LET checked(instances, tokenized) ==
        IF exact /\ Len(tokenized) = 1
        THEN filter_exact(instances, tokenized[1].raw) ELSE instances
      match(tokenized) ==
        filter_phrase(m,
                      checked(TrieNode_search(m, root_handle, tokenized[1].stemmed),
                              tokenized),
                      Tail(tokenized), exact)
      run(tokenized) ==
        IF tokenized = <<>> THEN [instances |-> <<>>, raised |-> TRUE]
        ELSE [instances |-> match(tokenized), raised |-> FALSE]
  IN run(tokenize(phrase))

\* mutant: the trie is searched for the raw first token, not for its stem
Tripe_search_raw_key(m, root_handle, phrase, exact) ==
  LET checked(instances, raw) ==
        IF exact THEN filter_exact(instances, raw) ELSE instances
      match(tokenized) ==
        filter_phrase(m,
                      checked(TrieNode_search(m, root_handle, tokenized[1].raw),
                              tokenized[1].raw),
                      Tail(tokenized), exact)
      run(tokenized) ==
        IF tokenized = <<>> THEN [instances |-> <<>>, raised |-> TRUE]
        ELSE [instances |-> match(tokenized), raised |-> FALSE]
  IN run(tokenize(phrase))

\* mutant: a phrase without a token finds nothing and raises nothing
Tripe_search_lenient(m, root_handle, phrase, exact) ==
  LET checked(instances, raw) ==
        IF exact THEN filter_exact(instances, raw) ELSE instances
      match(tokenized) ==
        filter_phrase(m,
                      checked(TrieNode_search(m, root_handle, tokenized[1].stemmed),
                              tokenized[1].raw),
                      Tail(tokenized), exact)
      run(tokenized) ==
        IF tokenized = <<>> THEN [instances |-> <<>>, raised |-> FALSE]
        ELSE [instances |-> match(tokenized), raised |-> FALSE]
  IN run(tokenize(phrase))

\* Tripe.search(phrase, exact): [instances, raised]; tokenized[0] raises
\* IndexError when the phrase has no token
Tripe_search(m, root_handle, phrase, exact) ==
  LET \* lines 168-170
      checked(instances, raw) ==
        IF exact THEN filter_exact(instances, raw) ELSE instances
      \* lines 164-174
      match(tokenized) ==
        filter_phrase(m,
                      checked(TrieNode_search(m, root_handle, tokenized[1].stemmed),
                              tokenized[1].raw),
                      Tail(tokenized), exact)
      run(tokenized) ==
        IF tokenized = <<>> THEN [instances |-> <<>>, raised |-> TRUE]
        ELSE [instances |-> match(tokenized), raised |-> FALSE]
  IN run(tokenize(phrase))

\* mutant: the instance is filed under the raw token, not under its stem
RECURSIVE Tripe_add_loop_raw(_, _, _, _, _, _)
Tripe_add_loop_raw(m, root_handle, tokens, k, doc, next) ==
  LET continue(a, ti) ==
        IF a.raised THEN a
        ELSE Tripe_add_loop_raw(a.m, root_handle, tokens, k + 1, doc, ti.handle)
      file_under(ti) ==
        continue(TrieNode_add(ti.m, root_handle, tokens[k].raw, ti.handle), ti)
  IN IF k > Len(tokens) THEN [m |-> m, raised |-> FALSE]
     ELSE file_under(TermInstance_new(m, doc, tokens[k].off, tokens[k].raw, next))

\* the for loop of Tripe.add over tokens (already reversed) from the k-th on;
\* next is the handle of the instance made last (0: None): [m, raised]
RECURSIVE Tripe_add_loop(_, _, _, _, _, _)
Tripe_add_loop(m, root_handle, tokens, k, doc, next) ==
  LET continue(a, ti) ==
        IF a.raised THEN a
        ELSE Tripe_add_loop(a.m, root_handle, tokens, k + 1, doc, ti.handle)
      file_under(ti) ==
        continue(TrieNode_add(ti.m, root_handle, tokens[k].stemmed, ti.handle), ti)
  IN IF k > Len(tokens) THEN [m |-> m, raised |-> FALSE]
     ELSE file_under(TermInstance_new(m, doc, tokens[k].off, tokens[k].raw, next))

\* mutant: the tokens are left in the order of the text
reverse_none(list) == list

\* list.reverse()
reverse(list) == [k \in 1..Len(list) |-> list[Len(list) + 1 - k]]

Tripe_add(m, root_handle, text, doc) ==
  Tripe_add_loop(m, root_handle, reverse(tokenize(text)), 1, doc, 0)

----------------------------------------------------------------------------
(* The inputs of the model *)

MaxAdds == 2

DocIds == {1, 2}

Text_a_b == <<97, 32, 98>>                                        \* "a b"
Text_A_b_c == <<65, 33, 33, 33, 33, 33, 33, 33, 32, 98, 32, 99>>   \* "A!!!!!!! b c"
Text_ab_c_a == <<32, 97, 98, 32, 32, 99, 32, 97, 32, 33>>         \* " ab  c a !"

Texts == {Text_a_b, Text_A_b_c, Text_ab_c_a}

Phrases ==
  { <<97, 32, 98>>,                                   \* "a b"
    <<65, 32, 98>>,                                   \* "A b"
    <<65, 33, 32, 66>>,                               \* "A! B"
    <<65, 33, 33, 33, 33, 33, 33, 33, 32, 98>>,       \* "A!!!!!!! b"
    <<97, 98, 32, 99>>,                               \* "ab c"
    <<97, 98, 32, 33>>,                               \* "ab !"
    <<33>>,                                           \* "!"
    <<32>> }                                          \* " ", no token

----------------------------------------------------------------------------
(* The state machine: one process at a time opens the index file *)

NoStore == [open |-> FALSE, writable |-> FALSE]

NoCall == [op |-> "none", arg |-> <<>>, before |-> <<>>, handle |-> 0, n |-> 0]

Init ==
  /\ exists = FALSE
  /\ file = <<>>
  /\ store = NoStore
  /\ root = 0
  /\ added = <<>>
  /\ query = <<>>
  /\ results = <<>>
  /\ err = "none"
  /\ call = NoCall
  /\ held = {}

\* Tripe(TripeStore(filename, writable)), tripe.py:359, tripe_add.py:12,
\* tripe_dot.py:28: TripeStore.__init__ creates the file if there is none and maps
\* it, Tripe.__init__ finds or makes the root
Open(writable) ==
  /\ ~store.open
  /\ LET made(t) ==
           /\ exists' = TRUE
           /\ file' = t.m
           /\ store' = IF t.raised THEN NoStore ELSE [open |-> TRUE, writable |-> writable]
           /\ root' = t.root
           /\ err' = IF t.raised THEN "TypeError" ELSE "none"
     IN made(Tripe_init(IF exists THEN file ELSE NewFile, writable))
  /\ query' = <<>>
  /\ results' = <<>>
  /\ UNCHANGED <<added, call, held>>

\* the process ends: its objects are discarded, the file stays
Close ==
  /\ store.open
  /\ store' = NoStore
  /\ root' = 0
  /\ query' = <<>>
  /\ results' = <<>>
  /\ err' = "none"
  /\ UNCHANGED <<exists, file, added, call, held>>

\* tripe.add(text, doc).  On a read-only map the first write raises TypeError.
AddCall(text, doc) ==
  /\ store.open
  /\ LET done(a, refused) ==
           /\ file' = IF refused THEN file ELSE a.m
           /\ err' = IF refused THEN "TypeError"
                     ELSE IF a.raised THEN "AssertionError" ELSE "none"
           /\ added' = IF refused \/ a.raised THEN added ELSE Append(added, <<text, doc>>)
     IN done(Tripe_add(file, root, text, doc), ~store.writable /\ tokenize(text) # <<>>)
  /\ query' = <<>>
  /\ results' = <<>>
  /\ UNCHANGED <<exists, store, root, call, held>>

\* tripe.search(phrase, exact)
Search(phrase, exact) ==
  /\ store.open
  /\ LET returned(r) ==
           /\ results' = r.instances
           /\ err' = IF r.raised THEN "IndexError" ELSE "none"
     IN returned(Tripe_search(file, root, phrase, exact))
  /\ query' = <<phrase, exact>>
  /\ UNCHANGED <<exists, file, store, root, added, call, held>>

Add(text, doc) == Len(added) < MaxAdds /\ AddCall(text, doc)

Next ==
  \/ \E writable \in BOOLEAN : Open(writable)
  \/ Close
  \/ \E text \in Texts, doc \in DocIds : Add(text, doc)
  \/ \E phrase \in Phrases, exact \in BOOLEAN : Search(phrase, exact)

Spec == Init /\ [][Next]_vars

----------------------------------------------------------------------------
(* The scenario of tripe.py:359-366: seven documents added to a new file *)

\* "Hello world"
ScenarioText1 ==
  <<72, 101, 108, 108, 111, 32, 119, 111, 114, 108, 100>>

\* "Hello, World"
ScenarioText2 ==
  <<72, 101, 108, 108, 111, 44, 32, 87, 111, 114, 108, 100>>

\* "Goodbye, cruel world..."
ScenarioText3 ==
  <<71, 111, 111, 100, 98, 121, 101, 44, 32, 99, 114, 117, 101, 108, 32, 119, 111,
    114, 108, 100, 46, 46, 46>>

\* "This is a test."
ScenarioText4 ==
  <<84, 104, 105, 115, 32, 105, 115, 32, 97, 32, 116, 101, 115, 116, 46>>

\* "This is not a pipe"
ScenarioText5 ==
  <<84, 104, 105, 115, 32, 105, 115, 32, 110, 111, 116, 32, 97, 32, 112, 105, 112, 101>>

\* "Thistle, bristle and whistle!"
ScenarioText6 ==
  <<84, 104, 105, 115, 116, 108, 101, 44, 32, 98, 114, 105, 115, 116, 108, 101,
    32, 97, 110, 100, 32, 119, 104, 105, 115, 116, 108, 101, 33>>

\* "A bird in the hand is worth two in the bush."
ScenarioText7 ==
  <<65, 32, 98, 105, 114, 100, 32, 105, 110, 32, 116, 104, 101, 32, 104, 97, 110,
    100, 32, 105, 115, 32, 119, 111, 114, 116, 104, 32, 116, 119, 111, 32, 105, 110,
    32, 116, 104, 101, 32, 98, 117, 115, 104, 46>>

\* the <<text, doc>> arguments of the seven add calls, in order
Scenario ==
  << <<ScenarioText1, 1>>,
     <<ScenarioText2, 2>>,
     <<ScenarioText3, 3>>,
     <<ScenarioText4, 4>>,
     <<ScenarioText5, 5>>,
     <<ScenarioText6, 6>>,
     <<ScenarioText7, 7>> >>

Phrase_hello == <<104, 101, 108, 108, 111>>   \* "hello"
Phrase_hello_world == <<104, 101, 108, 108, 111, 32, 119, 111, 114, 108, 100>>   \* "hello world"
Phrase_Hello_world == <<72, 101, 108, 108, 111, 32, 119, 111, 114, 108, 100>>   \* "Hello world"
Phrase_cruel_world == <<99, 114, 117, 101, 108, 32, 119, 111, 114, 108, 100>>   \* "cruel world"
Phrase_this_is == <<116, 104, 105, 115, 32, 105, 115>>   \* "this is"
Phrase_thistle == <<116, 104, 105, 115, 116, 108, 101>>   \* "thistle"
Phrase_bird_in_the_hand == <<98, 105, 114, 100, 32, 105, 110, 32, 116, 104, 101, 32, 104, 97, 110, 100>>   \* "bird in the hand"
Phrase_pipe_dream == <<112, 105, 112, 101, 32, 100, 114, 101, 97, 109>>   \* "pipe dream"

ScenarioPhrases ==
  { Phrase_hello,
    Phrase_hello_world,
    Phrase_Hello_world,
    Phrase_cruel_world,
    Phrase_this_is,
    Phrase_thistle,
    Phrase_bird_in_the_hand,
    Phrase_pipe_dream }

\* the calls made so far are the first calls of the scenario
InScenario == added = SubSeq(Scenario, 1, Len(added))

\* the next add call of the scenario
ScenarioAdd ==
  /\ Len(added) < Len(Scenario)
  /\ InScenario
  /\ AddCall(Scenario[Len(added) + 1][1], Scenario[Len(added) + 1][2])

\* a search of the scenario's file
ScenarioSearch(phrase, exact) == InScenario /\ Search(phrase, exact)

ScenarioNext ==
  \/ Open(TRUE)
  \/ ScenarioAdd
  \/ \E phrase \in ScenarioPhrases, exact \in BOOLEAN : ScenarioSearch(phrase, exact)

ScenarioSpec == Init /\ [][ScenarioNext]_vars

\* every call of the model and every call of the scenario
FullSpec == Init /\ [][Next \/ ScenarioNext]_vars

\* a file that is not an index file is there before the first open: 128 zero bytes
ForeignInit ==
  /\ exists = TRUE
  /\ file = Zeros(HEADERSIZE)
  /\ store = NoStore
  /\ root = 0
  /\ added = <<>>
  /\ query = <<>>
  /\ results = <<>>
  /\ err = "none"
  /\ call = NoCall
  /\ held = {}

ForeignSpec == ForeignInit /\ [][Next]_vars

----------------------------------------------------------------------------
(* A TripeStore used directly, tripe.py:30-141: a client stores numbers and
   text and frees blocks of numbers it was given, as TrieNode.add does *)

MaxCalls == 7

\* what the client stores
NumberLists == {<<1>>, <<1, 2>>}
StoredTexts == {<<97, 98, 99>>}                 \* "abc"

\* TripeStore(filename, True) where there was no file
StoreInit ==
  /\ exists = TRUE
  /\ file = NewFile
  /\ store = [open |-> TRUE, writable |-> TRUE]
  /\ root = 0
  /\ added = <<>>
  /\ query = <<>>
  /\ results = <<>>
  /\ err = "none"
  /\ call = NoCall
  /\ held = {}

\* store.store_numbers(numbers)
StoreNumbers(numbers) ==
  /\ call.n < MaxCalls
  /\ LET returned(a) ==
           /\ file' = a.m
           /\ call' = [op |-> "store_numbers", arg |-> numbers, before |-> file,
                       handle |-> a.handle, n |-> call.n + 1]
           /\ held' = held \cup {a.handle}
     IN returned(store_numbers(file, numbers))
  /\ UNCHANGED <<exists, store, root, added, query, results, err>>

\* store.store_text(text)
StoreText(text) ==
  /\ call.n < MaxCalls
  /\ LET returned(a) ==
           /\ file' = a.m
           /\ call' = [op |-> "store_text", arg |-> text, before |-> file,
                       handle |-> a.handle, n |-> call.n + 1]
     IN returned(store_text(file, text))
  /\ UNCHANGED <<exists, store, root, added, query, results, err, held>>

\* store.free(handle)
Free(handle) ==
  /\ call.n < MaxCalls
  /\ file' = free(file, handle)
  /\ call' = [op |-> "free", arg |-> <<handle>>, before |-> file,
              handle |-> 0, n |-> call.n + 1]
  /\ held' = held \ {handle}
  /\ UNCHANGED <<exists, store, root, added, query, results, err>>

StoreNext ==
  \/ \E numbers \in NumberLists : StoreNumbers(numbers)
  \/ \E text \in StoredTexts : StoreText(text)
  \/ \E handle \in held : Free(handle)

StoreSpec == StoreInit /\ [][StoreNext]_vars

----------------------------------------------------------------------------
(* What the documents added so far contain *)

Range(f) == {f[x] : x \in DOMAIN f}

\* the tokens of the text of the i-th add call
DocTokens(i) == tokenize(added[i][1])

\* the phrase tokens pt are the document tokens j, j+1, ... of tokens
MatchesAt(tokens, j, pt, exact) ==
  /\ j + Len(pt) - 1 <= Len(tokens)
  /\ \A k \in 1..Len(pt) :
       IF exact THEN tokens[j + k - 1].raw = pt[k].raw
       ELSE tokens[j + k - 1].stemmed = pt[k].stemmed

\* the occurrences of the phrase: <<i, j>> for token j of the i-th add call
Occurrences(phrase, exact) ==
  {o \in UNION {{<<i, j>> : j \in 1..Len(DocTokens(i))} : i \in 1..Len(added)} :
     MatchesAt(DocTokens(o[1]), o[2], tokenize(phrase), exact)}

\* the occurrences in document doc at offset off
OccurrencesAt(phrase, exact, doc, off) ==
  {o \in Occurrences(phrase, exact) :
     added[o[1]][2] = doc /\ DocTokens(o[1])[o[2]].off = off}

\* the results of the last search that lie in document doc at offset off
ResultsAt(doc, off) ==
  {k \in 1..Len(results) : results[k].doc = doc /\ results[k].offset = off}

\* the <<doc, offset>> of the tokens added and of the results returned
Positions ==
  {<<added[o[1]][2], DocTokens(o[1])[o[2]].off>> :
     o \in UNION {{<<i, j>> : j \in 1..Len(DocTokens(i))} : i \in 1..Len(added)}}
  \cup {<<results[k].doc, results[k].offset>> : k \in 1..Len(results)}

\* the last call was a search that returned
Searched == query # <<>> /\ err = "none"

\* the documents of the results, in order
ResultDocs == [k \in 1..Len(results) |-> results[k].doc]

----------------------------------------------------------------------------
(* C1 *)

\* C1: every instance a search returns lies at an occurrence of the phrase: some
\* add call with the instance's doc id has a token at the instance's offset from
\* which the phrase tokens match the document tokens (raw-equal when exact,
\* stem-equal otherwise).
SearchSound ==
  Searched =>
    \A k \in 1..Len(results) :
      OccurrencesAt(query[1], query[2], results[k].doc, results[k].offset) # {}

\* an exact search for a phrase of two tokens returned an instance, after two adds
SearchSoundWitness ==
  /\ Searched
  /\ query[2]
  /\ Len(tokenize(query[1])) = 2
  /\ Len(results) >= 1
  /\ Len(added) = 2

----------------------------------------------------------------------------
(* C2 *)

\* what the searches of the scenario return once the seven documents are added
ScenarioResults ==
  (added = Scenario /\ Searched /\ ~query[2]) =>
    /\ query[1] = Phrase_hello => ResultDocs = <<1, 2>>
    /\ query[1] = Phrase_hello_world => ResultDocs = <<1, 2>>
    /\ query[1] = Phrase_cruel_world => ResultDocs = <<3>>
    /\ query[1] = Phrase_this_is => ResultDocs = <<4, 5>>
    /\ query[1] = Phrase_thistle => ResultDocs = <<6>>
    /\ query[1] = Phrase_bird_in_the_hand =>
         ResultDocs = <<7>> /\ results[1].offset = 2
    /\ query[1] = Phrase_pipe_dream => results = <<>>

\* C2: a search that is not exact returns, for every document and offset, as many
\* instances as there are occurrences of the phrase there among the add calls
\* (one per occurrence, twice for a text added twice under one doc id), and on
\* the seven documents of the scenario it returns the results listed.
SearchComplete ==
  /\ (Searched /\ ~query[2]) =>
       \A pos \in Positions :
         Cardinality(ResultsAt(pos[1], pos[2]))
           = Cardinality(OccurrencesAt(query[1], FALSE, pos[1], pos[2]))
  /\ ScenarioResults

\* a search returned two instances at one document and offset: the text was
\* added twice under one doc id
SearchCompleteWitness ==
  /\ Searched
  /\ ~query[2]
  /\ \E pos \in Positions : Cardinality(ResultsAt(pos[1], pos[2])) = 2

----------------------------------------------------------------------------
(* C3 *)

\* C3 as claimed: in the scenario the exact search for "hello world" returns
\* exactly one instance, of document 1.
ExactScenarioClaimed ==
  (added = Scenario /\ query = <<Phrase_hello_world, TRUE>>) =>
    (Len(results) = 1 /\ results[1].doc = 1)

\* C3 amended: in the scenario the exact search for "hello world" returns nothing
\* (document 1 holds "Hello", not "hello"), and the exact search for
\* "Hello world" returns exactly one instance, of document 1.
ExactScenario ==
  /\ (added = Scenario /\ query = <<Phrase_hello_world, TRUE>>) => results = <<>>
  /\ (added = Scenario /\ query = <<Phrase_Hello_world, TRUE>>) =>
       (Len(results) = 1 /\ results[1].doc = 1)

\* the exact search for "Hello world" ran on the seven documents
ExactScenarioWitness ==
  /\ added = Scenario
  /\ query = <<Phrase_Hello_world, TRUE>>
  /\ Len(results) = 1

----------------------------------------------------------------------------
(* C4 *)

\* C4: every instance an exact search returns stores the raw first token of the
\* phrase, and that is the raw token at the instance's offset in an added
\* document with the instance's doc id.
ExactStrict ==
  (Searched /\ query[2]) =>
    \A k \in 1..Len(results) :
      /\ results[k].raw = tokenize(query[1])[1].raw
      /\ \E i \in 1..Len(added) :
           /\ added[i][2] = results[k].doc
           /\ \E j \in 1..Len(DocTokens(i)) :
                /\ DocTokens(i)[j].off = results[k].offset
                /\ DocTokens(i)[j].raw = tokenize(query[1])[1].raw

\* an exact search returned an instance and left out another one that the same
\* search, not exact, returns
ExactStrictWitness ==
  /\ Searched
  /\ query[2]
  /\ Len(results) >= 1
  /\ Len(Tripe_search(file, root, query[1], FALSE).instances) > Len(results)

----------------------------------------------------------------------------
(* C5 *)

\* re: a new Tripe over a read-only store of the same file.  It finds the root,
\* writes nothing and returns for the last search what the process got
SameWhenReopened(re) ==
  /\ ~re.raised
  /\ re.m = file
  /\ Searched => Tripe_search(re.m, re.root, query[1], query[2]).instances = results

\* C5: whenever a process has the index open, a new index constructed read-only
\* over the bytes of the file leaves the file as it is and returns, for the
\* phrase and mode of any search, the results the process got through its own
\* objects.
RoundTrip == store.open => SameWhenReopened(Tripe_init(file, FALSE))

\* documents were added, the file was reopened read-only and a search through
\* the new objects returned an instance
RoundTripWitness ==
  /\ store.open
  /\ ~store.writable
  /\ Len(added) = 2
  /\ Searched
  /\ Len(results) >= 1

----------------------------------------------------------------------------
(* The blocks of the file *)

\* the handles on the free list from handle h on, after those in seen; a 0 is
\* appended if the list leaves the blocks of the file or comes back to a handle
RECURSIVE FreeWalk(_, _, _)
FreeWalk(m, h, seen) ==
  IF h = 0 THEN seen
  ELSE IF h \in Range(seen) \/ h < HEADERSIZE + INTSIZE \/ h + INTSIZE > Len(m)
       THEN Append(seen, 0)
       ELSE FreeWalk(m, load_number(m, h), Append(seen, h))

FreeList(m) == FreeWalk(m, load_number(m, HEADER_FIRST_FREE), <<>>)

\* the trie nodes at and below the node h
RECURSIVE TrieNodes(_, _)
TrieNodes(m, h) ==
  {h} \cup UNION {TrieNodes(m, c[2]) : c \in Range(TrieNode_children(m, h))}

\* the trie nodes of the file
AllNodes(m) == IF get_root(m) = 0 THEN {} ELSE TrieNodes(m, get_root(m))

\* the term instance t, its raw text and the instances after it in its document
RECURSIVE ChainBlocks(_, _)
ChainBlocks(m, t) ==
  IF t = 0 THEN {}
  ELSE {t, load_numbers(m, t)[3]} \cup ChainBlocks(m, load_numbers(m, t)[4])

\* the blocks reachable from the node n without going through another node
NodeBlocks(m, n) ==
  (({n} \cup Range(load_numbers(m, n))) \ {0})
  \cup UNION {ChainBlocks(m, t) : t \in Range(TrieNode_matches(m, n))}

\* the blocks reachable from ROOT
Reachable(m) == UNION {NodeBlocks(m, n) : n \in AllNodes(m)}

\* the term instances filed in the trie
AllInstances(m) ==
  UNION {Range(load_instances(m, TrieNode_matches(m, n))) : n \in AllNodes(m)}

----------------------------------------------------------------------------
(* C6 *)

\* C6: the free list from FIRST_FREE is a chain of blocks without repetition
\* that ends at 0, and no block on it is reachable from ROOT.
FreeListSound ==
  exists =>
    /\ 0 \notin Range(FreeList(file))
    /\ Range(FreeList(file)) \cap Reachable(file) = {}

\* two blocks are on the free list and a term instance or its raw text was
\* placed in a block taken from the free list (its record does not follow its
\* raw text at the end of the file)
FreeListSoundWitness ==
  /\ exists
  /\ Len(FreeList(file)) >= 2
  /\ \E t \in AllInstances(file) : t.handle # t.raw_handle + Len(t.raw) + INTSIZE

----------------------------------------------------------------------------
(* C7 *)

\* C7: at every trie node the keys of the children array are strictly increasing.
ChildrenSorted ==
  exists =>
    \A n \in AllNodes(file) :
      \A k \in 1..(Len(TrieNode_children(file, n)) - 1) :
        TrieNode_children(file, n)[k][1] < TrieNode_children(file, n)[k + 1][1]

\* a node has three children, and a child made later (at a greater handle)
\* stands before an earlier one: it was spliced in, not appended
ChildrenSortedWitness ==
  /\ exists
  /\ \E n \in AllNodes(file) :
       /\ Len(TrieNode_children(file, n)) = 3
       /\ \E k \in 1..2 :
            TrieNode_children(file, n)[k][2] > TrieNode_children(file, n)[k + 1][2]

----------------------------------------------------------------------------
(* C8 *)

\* the raw tokens of p are the first raw tokens of q, and q has more
IsTokenPrefix(p, q) ==
  /\ Len(tokenize(p)) >= 1
  /\ Len(tokenize(p)) < Len(tokenize(q))
  /\ \A k \in 1..Len(tokenize(p)) : tokenize(p)[k].raw = tokenize(q)[k].raw

\* the <<doc, offset>> of the instances
PositionsOf(instances) == {<<t.doc, t.offset>> : t \in Range(instances)}

\* the positions a search returns
Found(phrase, exact) == PositionsOf(Tripe_search(file, root, phrase, exact).instances)

\* C8: the positions a search returns are among those the search in the same
\* mode returns for every prefix of the phrase that ends with one of its tokens
\* but the last.
PrefixMonotone ==
  Searched =>
    \A k \in 1..(Len(query[1]) - 1) :
      IsTokenPrefix(SubSeq(query[1], 1, k), query[1]) =>
        PositionsOf(results) \subseteq Found(SubSeq(query[1], 1, k), query[2])

\* the last search, for a phrase of two tokens, returned an instance, and the
\* search for its first token returns more
PrefixMonotoneWitness ==
  /\ Searched
  /\ Len(tokenize(query[1])) = 2
  /\ Len(results) >= 1
  /\ \E k \in 1..(Len(query[1]) - 1) :
       /\ IsTokenPrefix(SubSeq(query[1], 1, k), query[1])
       /\ PositionsOf(results) # Found(SubSeq(query[1], 1, k), query[2])

----------------------------------------------------------------------------
(* C9 *)

\* the stemmed forms of the tokens of the phrase
Stems(phrase) == [k \in 1..Len(tokenize(phrase)) |-> tokenize(phrase)[k].stemmed]

\* C9: a search that is not exact returns the instances that the search, not
\* exact, for any phrase with the same stemmed forms of the tokens returns.
StemInvariant ==
  (Searched /\ ~query[2]) =>
    \A p \in Phrases :
      Stems(p) = Stems(query[1]) =>
        Tripe_search(file, root, p, FALSE).instances = results

\* the last search, not exact, returned instances none of which has the raw
\* first token of the phrase, and another phrase has the same stemmed forms
StemInvariantWitness ==
  /\ Searched
  /\ ~query[2]
  /\ Len(results) >= 2
  /\ \A k \in 1..Len(results) : results[k].raw # tokenize(query[1])[1].raw
  /\ \E p \in Phrases : p # query[1] /\ Stems(p) = Stems(query[1])

----------------------------------------------------------------------------
(* C10 *)

\* C10 as claimed: no store is open on a file whose slot 0 is not MAGIC (the
\* open fails with BadMagic), so nothing is read from or written to such a file.
BadMagicRefused == store.open => SubSeq(file, 1, INTSIZE) = MAGIC

----------------------------------------------------------------------------
(* C11 *)

\* C11: a search whose phrase has no token (whitespace only) raises an error
\* (IndexError, from tokenized[0]), returns no list of results and leaves the
\* file as it was.
EmptyPhraseFails ==
  [][\A phrase \in Phrases, exact \in BOOLEAN :
       (tokenize(phrase) = <<>> /\ Search(phrase, exact)) =>
         (err' = "IndexError" /\ results' = <<>> /\ file' = file)]_vars

\* documents were added and the last search, for a phrase without a token, raised
EmptyPhraseFailsWitness ==
  /\ added # <<>>
  /\ query # <<>>
  /\ tokenize(query[1]) = <<>>
  /\ err = "IndexError"

----------------------------------------------------------------------------
(* The last call on the store, for C12, C13, C14 and C20 *)

\* the last call was store_numbers or store_text, which allocate
Allocated == call.op \in {"store_numbers", "store_text"}

\* the size the call asked __allocate for (calcsize(fmt), len(utf8))
Requested ==
  IF call.op = "store_numbers" THEN INTSIZE * Len(call.arg) ELSE Len(call.arg)

\* the positions on the free list before the call of the blocks larger than size
Fits(size) ==
  {k \in 1..Len(FreeList(call.before)) :
     handle_size(call.before, FreeList(call.before)[k]) > size}

\* the least number of a non-empty set of numbers
Min(S) == CHOOSE k \in S : \A j \in S : k <= j

\* the sequence without its k-th element
Without(seq, k) == SubSeq(seq, 1, k - 1) \o SubSeq(seq, k + 1, Len(seq))

----------------------------------------------------------------------------
(* C12 *)

\* C12 as claimed: when the call was given a block of the free list, the size
\* prefix of the block is after the call what it was before the call.
ReusedPrefixPreserved ==
  (Allocated /\ call.handle \in Range(FreeList(call.before))) =>
    handle_size(file, call.handle) = handle_size(call.before, call.handle)

----------------------------------------------------------------------------
(* C13 *)

\* C13 as claimed: after free(handle) the free list is the handle followed by the
\* free list before the call, the first 8 bytes of the block hold the FIRST_FREE
\* of before the call, and the size prefix of the block is unchanged.
FreePushesHead ==
  call.op = "free" =>
    /\ FreeList(file) = <<call.arg[1]>> \o FreeList(call.before)
    /\ load_number(file, call.arg[1]) = load_number(call.before, HEADER_FIRST_FREE)
    /\ handle_size(file, call.arg[1]) = handle_size(call.before, call.arg[1])

----------------------------------------------------------------------------
(* C14 *)

\* what C14 says of a call that asked for size bytes and was given handle h
FirstFitOf(size, h) ==
  /\ \A k \in 1..Len(FreeList(call.before)) :
       FreeList(call.before)[k] = h => handle_size(call.before, h) > size
  /\ IF Fits(size) = {}
     THEN /\ Len(file) = Len(call.before) + INTSIZE + size
          /\ h = Len(call.before) + INTSIZE
          /\ FreeList(file) = FreeList(call.before)
     ELSE /\ Len(file) = Len(call.before)
          /\ h = FreeList(call.before)[Min(Fits(size))]
          /\ FreeList(file) = Without(FreeList(call.before), Min(Fits(size)))

\* C14: a call that allocates is given the first block of the free list that is
\* larger than the size asked for, never one of that size; the block is taken
\* off the list and the others keep their order; when no block is larger the
\* file grows by 8 + size bytes and the handle is the old length + 8.
FirstFit == Allocated => FirstFitOf(Requested, call.handle)

\* the call passed over a free block of just the size asked for and was given a
\* later, larger block of the list
FirstFitWitness ==
  /\ Allocated
  /\ Len(FreeList(call.before)) >= 2
  /\ handle_size(call.before, FreeList(call.before)[1]) = Requested
  /\ Fits(Requested) # {}
  /\ call.handle = FreeList(call.before)[Min(Fits(Requested))]
  /\ FreeList(file) # <<>>

----------------------------------------------------------------------------
(* The trie of the file against the stems of the documents added *)

\* the nodes at and below node h, each with the characters that lead to it:
\* [handle, path]
RECURSIVE NodePaths(_, _, _)
NodePaths(m, h, path) ==
  {[handle |-> h, path |-> path]}
    \cup UNION {NodePaths(m, c[2], Append(path, c[1])) :
                  c \in Range(TrieNode_children(m, h))}

\* the nodes of the file with their paths
AllPaths(m) == IF get_root(m) = 0 THEN {} ELSE NodePaths(m, get_root(m), <<>>)

\* <<i, j>> for every token j of the i-th add call
AddedTokens == UNION {{<<i, j>> : j \in 1..Len(DocTokens(i))} : i \in 1..Len(added)}

\* the tokens added whose stem is path
TokensAt(path) == {o \in AddedTokens : DocTokens(o[1])[o[2]].stemmed = path}

\* the characters that follow path in the stems of the tokens added
NextChars(path) ==
  {DocTokens(o[1])[o[2]].stemmed[Len(path) + 1] :
     o \in {a \in AddedTokens :
              /\ Len(DocTokens(a[1])[a[2]].stemmed) > Len(path)
              /\ SubSeq(DocTokens(a[1])[a[2]].stemmed, 1, Len(path)) = path}}

----------------------------------------------------------------------------
(* C15 *)

\* the blocks of node n, the node of path: the node has two numbers, a matches
\* array one number for each token added with this stem, a children array two
\* numbers for each character that follows the path
NodeSizes(m, n, path) ==
  /\ handle_size(m, n) = 2 * INTSIZE
  /\ load_numbers(m, n)[1] # 0 =>
       handle_size(m, load_numbers(m, n)[1]) = INTSIZE * Cardinality(TokensAt(path))
  /\ load_numbers(m, n)[2] # 0 =>
       handle_size(m, load_numbers(m, n)[2]) = 2 * INTSIZE * Cardinality(NextChars(path))

\* store_numbers and then load_numbers of the handle gives the numbers back
LoadsWhatWasStored(a, numbers) == load_numbers(a.m, a.handle) = numbers

\* C15: every trie node has a payload of 16 bytes, every term instance one of
\* 32 bytes, every matches array 8 bytes for each match and every children
\* array 16 bytes for each child; load_numbers returns the numbers that
\* store_numbers stored and update_numbers never fails its size check.
BlockSizes ==
  exists =>
    /\ \A p \in AllPaths(file) : NodeSizes(file, p.handle, p.path)
    /\ \A t \in AllInstances(file) : handle_size(file, t.handle) = 4 * INTSIZE
    /\ \A numbers \in NumberLists :
         LoadsWhatWasStored(store_numbers(file, numbers), numbers)
    /\ err # "AssertionError"

\* blocks were taken from the free list: a matches array lies before a term
\* instance it lists, though it was stored after the instance was made, and a
\* term instance does not follow its raw text
BlockSizesWitness ==
  /\ exists
  /\ \E n \in AllNodes(file) :
       \E t \in Range(TrieNode_matches(file, n)) : load_numbers(file, n)[1] < t
  /\ \E t \in AllInstances(file) : t.handle # t.raw_handle + Len(t.raw) + INTSIZE

----------------------------------------------------------------------------
(* C16 *)

\* the size prefix read at offset off when it leads to an offset of the file,
\* and the length of the file (which leads past its end) when it does not
TileSize(m, off) ==
  IF \E k \in 4..INTSIZE : m[off + k] # 0 THEN Len(m)
  ELSE load_number(m, off)

\* the offsets visited from off on by skipping 8 + the size prefix, until fewer
\* than 8 bytes are left
RECURSIVE Tiles(_, _)
Tiles(m, off) ==
  IF off + INTSIZE > Len(m) THEN {off}
  ELSE {off} \cup Tiles(m, off + INTSIZE + TileSize(m, off))

\* C16 as claimed: skipping from offset 128 from size prefix to size prefix
\* ends at the end of the file and visits the prefix of every block reachable
\* from ROOT and of every block on the free list.
BlocksTile ==
  exists =>
    /\ Len(file) \in Tiles(file, HEADERSIZE)
    /\ \A h \in Reachable(file) \cup Range(FreeList(file)) :
         h - INTSIZE \in Tiles(file, HEADERSIZE)

----------------------------------------------------------------------------
(* C17 *)

\* the handles of the term instances filed in the trie
InstanceHandles(m) == {t.handle : t \in AllInstances(m)}

\* the term instances of the file at the handles that are in after, not in before
MadeBetween(before, after) == {t \in AllInstances(file) : t.handle \in after \ before}

\* t, made for tokens in made: after the last token there is no instance, after
\* token j there is the instance, made by the same add call, of token j + 1
ChainStep(tokens, doc, made, t) ==
  /\ t.doc = doc
  /\ \E j \in 1..Len(tokens) :
       /\ tokens[j].off = t.offset
       /\ tokens[j].raw = t.raw
       /\ IF j = Len(tokens) THEN t.next_handle = 0
          ELSE \E u \in made :
                 /\ u.handle = t.next_handle
                 /\ u.doc = t.doc
                 /\ u.offset = tokens[j + 1].off
                 /\ u.offset > t.offset

\* every instance that made holds is in its place in the chain of its document
ChainOf(tokens, doc, made) ==
  /\ Cardinality(made) = Len(tokens)
  /\ \A t \in made : ChainStep(tokens, doc, made, t)

\* the add calls from the k-th on, made again on the file m that the calls
\* before them left, end with the file, and each makes the chain of its document
RECURSIVE ChainsFrom(_, _)
ChainsFrom(k, m) ==
  LET madeIn(before, after) ==
        /\ before \subseteq after
        /\ ChainOf(DocTokens(k), added[k][2], MadeBetween(before, after))
      step(after) ==
        /\ madeIn(InstanceHandles(m), InstanceHandles(after))
        /\ ChainsFrom(k + 1, after)
  IN IF k > Len(added) THEN m = file
     ELSE step(Tripe_add(m, get_root(file), added[k][1], added[k][2]).m)

\* C17: the next handle of a term instance is 0 when the instance is of the
\* last token of its add call, else it is the handle of the instance that the
\* same add call made for the token that follows, with the same doc id and a
\* greater offset; every instance is made by one add call.
ChainOrder ==
  (exists /\ get_root(file) # 0) => ChainsFrom(1, Tripe_init(NewFile, TRUE).m)

\* two add calls with the same doc id were made, each of more than one token
ChainOrderWitness ==
  /\ exists
  /\ Len(added) = 2
  /\ added[1][2] = added[2][2]
  /\ \A k \in 1..2 : Len(DocTokens(k)) >= 2
  /\ \E t \in AllInstances(file) : t.next_handle # 0
  /\ Cardinality({t \in AllInstances(file) : t.next_handle = 0}) = 2

----------------------------------------------------------------------------
(* C18 *)

\* C18: the raw text of every term instance in the matches array of a node has
\* as its stem the characters that lead from the root to the node; tokens with
\* an empty stem are in the matches array of the root.
TrieKeys ==
  exists =>
    \A p \in AllPaths(file) :
      \A t \in Range(load_instances(file, TrieNode_matches(file, p.handle))) :
        stem(t.raw) = p.path

\* the root holds a match (a token without a word character), and a node two
\* characters below the root holds one whose raw text is not its stem
TrieKeysWitness ==
  /\ exists
  /\ get_root(file) # 0
  /\ TrieNode_matches(file, get_root(file)) # <<>>
  /\ \E p \in AllPaths(file) :
       /\ Len(p.path) = 1
       /\ \E t \in Range(load_instances(file, TrieNode_matches(file, p.handle))) :
            t.raw # p.path
  /\ \E p \in AllPaths(file) :
       Len(p.path) = 2 /\ TrieNode_matches(file, p.handle) # <<>>

----------------------------------------------------------------------------
(* C19 *)

\* the blocks of the file that are trie nodes, term instances and raw texts
KeptBlocks(m) ==
  AllNodes(m) \cup InstanceHandles(m) \cup {t.raw_handle : t \in AllInstances(m)}

\* from the file m to the file n every node keeps its handle and its path, every
\* term instance its handle and what it holds, and none of their blocks is on
\* the free list
HandlesKept(m, n) ==
  /\ AllPaths(m) \subseteq AllPaths(n)
  /\ AllInstances(m) \subseteq AllInstances(n)
  /\ Range(FreeList(n)) \cap KeptBlocks(m) = {}

\* C19: a call that changes the file leaves every trie node at its handle under
\* its path and every term instance and raw text in its block, none of them
\* freed; slot ROOT changes only when it is 0 and an index is opened.
NodesStable ==
  [][(exists /\ file' # file) =>
       /\ HandlesKept(file, file')
       /\ get_root(file') # get_root(file) =>
            (get_root(file) = 0 /\ ~store.open /\ store'.open)]_vars

\* two add calls replaced and freed arrays (a node has two matches, a block is
\* on the free list), and the index was opened again, read-only
NodesStableWitness ==
  /\ store.open
  /\ ~store.writable
  /\ Len(added) = 2
  /\ FreeList(file) # <<>>
  /\ \E n \in AllNodes(file) : Len(TrieNode_matches(file, n)) >= 2
  /\ \E n \in AllNodes(file) : Len(TrieNode_children(file, n)) >= 2

----------------------------------------------------------------------------
(* C20 *)

\* the positions in the map of header slot FIRST_FREE and of the payload of
\* block h
FreedBytes(m, h) ==
  ((HEADER_FIRST_FREE + 1)..(HEADER_FIRST_FREE + INTSIZE))
    \cup ((h + 1)..(h + handle_size(m, h)))

\* C20 as claimed: free(handle) leaves the length of the file as it is, takes no
\* block off the free list and changes no byte but those of the payload of the
\* freed block and of header slot FIRST_FREE.
FreeAllocatesNothing ==
  call.op = "free" =>
    /\ Len(file) = Len(call.before)
    /\ Range(FreeList(call.before)) \subseteq Range(FreeList(file))
    /\ \A o \in DOMAIN file \cap DOMAIN call.before :
         file[o] # call.before[o] => o \in FreedBytes(call.before, call.arg[1])

====
